---- MODULE Spec2Model ----
(***************************************************************************)
(* Model of the pubsub job pipeline: the backend (POST /submit, the        *)
(* WebSocket registry wsClients, the result router listenForResults) and   *)
(* the worker loop, joined by the two Redis lists 'problems' and           *)
(* 'results'.  Spec is the pipeline while the broker is reachable and     *)
(* every text parses; SpecFault adds the broker going away, texts that do  *)
(* not parse, and what the processes do then; SpecRegister is the         *)
(* registry under register messages with or without a userId.  SpecChat   *)
(* is the chat server, a separate process with its own variables.          *)
(*                                                                         *)
(* Every queue element carries, next to its JSON text, a tag `jid` that    *)
(* numbers the accepted submissions in rPush order.  The tag is            *)
(* instrumentation: no action reads it to decide anything.  The variables  *)
(* accepted, popLog, pushLog, routeLog, regIds, lastReg, staleAtClose,     *)
(* intact and orphaned are history variables in the same sense.            *)
(***************************************************************************)
EXTENDS Integers, Sequences, FiniteSets, TLC

\* ------------------------------------------------------------------ bounds
NumConns == 2
NumWorkers == 2
MaxJobs == 2
NumSockets == 3
MaxEvents == 3

Conns == 1..NumConns
Workers == 1..NumWorkers
NoConn == 0
Sockets == 1..NumSockets

\* ------------------------------------------------------------- JS values
Undefined == "<undefined>"
UserIds == {"u1", "u2"}
RegIds == UserIds
\* What msg.userId can be in a register message: an identity, nothing at
\* all, or the empty string.
MsgIds == UserIds \cup {Undefined, ""}

Truthy(v) == v # Undefined /\ v # ""

Range(s) == {s[i] : i \in 1..Len(s)}

JobKeys == <<"userId", "username", "problemTd", "code", "language">>
ResultKeys == <<"userId", "username", "problemTd", "status">>

\* JSON.stringify of an object: the key/value pairs in key order, without
\* the keys whose value is undefined.
Stringify(obj, keys) ==
    LET all == [i \in 1..Len(keys) |-> <<keys[i], obj[keys[i]]>>]
    IN  SelectSeq(all, LAMBDA p : p[2] # Undefined)

\* JSON.parse followed by property reads: a key that is absent reads back
\* as undefined.
Parse(s, keys) ==
    [k \in Range(keys) |->
        IF \E i \in 1..Len(s) : s[i][1] = k
        THEN s[CHOOSE i \in 1..Len(s) : s[i][1] = k][2]
        ELSE Undefined]

\* A text that is not JSON, and the test JSON.parse makes.
Garbage == <<<<"<not json>", "">>>>

Parsable(s) == \A i \in 1..Len(s) : s[i][1] # "<not json>"

Payload(u, n, p) ==
    [userId |-> u, username |-> n, problemTd |-> p, code |-> "src", language |-> "js"]

NameOf(u) == IF u = "u1" THEN "alice" ELSE "bob"

ValidPayloads == {Payload(u, NameOf(u), "two_sum") : u \in UserIds}

InvalidPayloads ==
    {Payload(Undefined, "alice", "two_sum"), Payload("", "alice", "two_sum"),
     Payload("u1", Undefined, "two_sum"),    Payload("u1", "", "two_sum"),
     Payload("u1", "alice", Undefined),      Payload("u1", "alice", "")}

Payloads == ValidPayloads \cup InvalidPayloads

NoPayload == Payload(Undefined, Undefined, Undefined)

\* ------------------------------------------------------------ Redis lists
\* Variant: the element is put at the head of the list (lPush).
RPushHead(q, e) == <<e>> \o q

RPush(q, e) == Append(q, e)

\* Variant: the element is taken from the tail of the list (brPop).
BlPopTail(q) == [element |-> q[Len(q)], rest |-> SubSeq(q, 1, Len(q) - 1)]

\* Variant: the element is read but stays in the list.
BlPopPeek(q) == [element |-> Head(q), rest |-> q]

BlPop(q) == [element |-> Head(q), rest |-> Tail(q)]

\* --------------------------------------------------------------- registry
Lookup(m, k) == IF k \in DOMAIN m THEN m[k] ELSE NoConn

\* Variant: an existing entry is kept (first registration wins).
RegistrySetIfAbsent(m, k, c) ==
    IF k \in DOMAIN m /\ m[k] # NoConn
    THEN m
    ELSE [x \in (DOMAIN m) \cup {k} |-> IF x = k THEN c ELSE m[x]]

RegistrySet(m, k, c) == [x \in (DOMAIN m) \cup {k} |-> IF x = k THEN c ELSE m[x]]

\* ----------------------------------------------------------------- submit
\* Variant: the problem id is not checked.
ValidateNoProblem(payload) ==
    Truthy(payload.userId) /\ Truthy(payload.username)

Validate(payload) ==
    Truthy(payload.userId) /\ Truthy(payload.username) /\ Truthy(payload.problemTd)

\* Variant: the failure of the queue write is swallowed.
SubmitStatusSwallow(valid, pushOk) ==
    IF ~valid THEN 400 ELSE 200

SubmitStatus(valid, pushOk) ==
    IF ~valid THEN 400 ELSE IF pushOk THEN 200 ELSE 500

\* ----------------------------------------------------------------- worker
\* Variant: the display name is copied into the identity field.
MakeResultByName(payload) ==
    [userId |-> payload.username, username |-> payload.username,
     problemTd |-> payload.problemTd, status |-> "Accepted"]

MakeResult(payload) ==
    [userId |-> payload.userId, username |-> payload.username,
     problemTd |-> payload.problemTd, status |-> "Accepted"]

\* ----------------------------------------------------------------- router
\* Variant: without an entry for the identity, the result goes to some open
\* connection.
RouteTargetFallback(m, st, result) ==
    LET ws == Lookup(m, result.userId)
        open == {c \in DOMAIN st : st[c] = "OPEN"}
    IN  IF ws # NoConn /\ st[ws] = "OPEN" THEN ws
        ELSE IF open # {} THEN CHOOSE c \in open : TRUE ELSE NoConn

\* Variant: the readyState of the registered connection is not tested.
RouteTargetAnyState(m, st, result) == Lookup(m, result.userId)

RouteTarget(m, st, result) ==
    LET ws == Lookup(m, result.userId)
    IN  IF ws # NoConn /\ st[ws] = "OPEN" THEN ws ELSE NoConn

\* Variant: the loop is only continued after a send.
RouterAfterSendOnly(ws) == IF ws = NoConn THEN "stopped" ELSE "blocked"

\* listenForResults calls itself again after every handled result.
RouterAfter(ws) == "blocked"

VARIABLES
    broker,     \* the Redis server: "up" | "down"
    backend,    \* "connecting" | "running" | "crashed:<statement that threw>"
    problems,   \* Redis list 'problems'
    results,    \* Redis list 'results'
    wsClients,  \* Map userId -> connection (NoConn: no entry)
    connState,  \* per connection: "NEW" | "OPEN" | "CLOSING" | "CLOSED"
    inbox,      \* per connection: the texts passed to ws.send, in order
    worker,     \* per worker: [pc, job]; pc is "connecting" | "waiting" |
                \* "ready" | "executing" | "dead:<statement that threw>"
    router,     \* [pc, held]; pc is "connecting" | "blocked" | "handling" |
                \* "stopped:<statement that threw>"
    reply,      \* the last HTTP response of POST /submit: the request, whether
                \* its rPush succeeded, the status; n flips on every request
    accepted,   \* history: payloads whose rPush succeeded, index = jid
    popLog,     \* history: [w, jid] in the order 'problems' was popped
    pushLog,    \* history: jids in the order 'results' was pushed
    routeLog,   \* history: [jid, to, entry, bypassed] in routing order
    regIds,     \* history: per connection, the userIds it registered
    lastReg,    \* history: per userId, the connection that registered last
    staleAtClose, \* history: per connection, the userIds it had registered
                \* that belonged to another connection when it closed
    intact,     \* history: per jid, the submitter's connection while it has
                \* stayed registered and OPEN since the submission
    orphaned,   \* history: per jid, the submitter's connection if it left
                \* OPEN before the worker pushed the job's result
    sockets,    \* chat server: readyState of each socket of wss.clients
    clients,    \* chat server: the Map socket -> {name}, as the sequence of
                \* its entries [ws, name] in insertion order
    chatInbox,  \* chat server: per socket, the payloads passed to send
    handled,    \* chat server: [n, ws, data] of the last 'message' event,
                \* n counts the events
    garbled     \* history: the sockets that sent data the handler could
                \* not read

vars == <<broker, backend, problems, results, wsClients, connState, inbox,
          worker, router, reply, accepted, popLog, pushLog, routeLog,
          regIds, lastReg, staleAtClose, intact, orphaned,
          sockets, clients, chatInbox, handled, garbled>>

chatVars == <<sockets, clients, chatInbox, handled, garbled>>

pipelineVars == <<broker, backend, problems, results, wsClients, connState,
                  inbox, worker, router, reply, accepted, popLog, pushLog,
                  routeLog, regIds, lastReg, staleAtClose, intact, orphaned>>

hist == <<accepted, popLog, pushLog, routeLog, regIds, lastReg,
          staleAtClose, intact, orphaned>>

Idle == [pc |-> "connecting", job |-> NoPayload, jid |-> 0]

Init ==
    /\ broker = "up"
    /\ backend = "connecting"
    /\ problems = <<>>
    /\ results = <<>>
    /\ wsClients = [k \in RegIds |-> NoConn]
    /\ connState = [c \in Conns |-> "NEW"]
    /\ inbox = [c \in Conns |-> <<>>]
    /\ worker = [w \in Workers |-> Idle]
    /\ router = [pc |-> "connecting", held |-> <<>>, jid |-> 0]
    /\ reply = [n |-> 0, req |-> NoPayload, pushOk |-> FALSE, status |-> 0]
    /\ accepted = <<>>
    /\ popLog = <<>>
    /\ pushLog = <<>>
    /\ routeLog = <<>>
    /\ regIds = [c \in Conns |-> {}]
    /\ lastReg = [k \in RegIds |-> NoConn]
    /\ staleAtClose = [c \in Conns |-> {}]
    /\ intact = <<>>
    /\ orphaned = <<>>
    /\ sockets = [c \in Sockets |-> "NEW"]
    /\ clients = <<>>
    /\ chatInbox = [c \in Sockets |-> <<>>]
    /\ handled = [n |-> 0, ws |-> NoConn, data |-> <<>>]
    /\ garbled = {}

\* Variant: the closing connection removes the keys it registered, whoever
\* holds them now.
RegistryUnregisterByKey(m, c) ==
    [x \in DOMAIN m |-> IF x \in regIds[c] THEN NoConn ELSE m[x]]

\* Variant: the scan stops at the first entry of the closing connection.
RegistryUnregisterOne(m, c) ==
    LET mine == {x \in DOMAIN m : m[x] = c}
    IN  IF mine = {} THEN m
        ELSE [x \in DOMAIN m |->
                IF x = (CHOOSE y \in mine : TRUE) THEN NoConn ELSE m[x]]

\* The close handler's scan: every entry whose value is the closing
\* connection is deleted.
RegistryUnregister(m, c) == [x \in DOMAIN m |-> IF m[x] = c THEN NoConn ELSE m[x]]

\* Jobs accepted but not yet handled by the router.
Unrouted == {j \in 1..Len(accepted) : \A i \in 1..Len(routeLog) : routeLog[i].jid # j}

\* The submitter's connection of an unrouted job stops counting as "stayed
\* registered and open" once the job is in `lost`.
Forget(lost) ==
    [j \in 1..Len(intact) |-> IF j \in Unrouted /\ j \in lost THEN NoConn ELSE intact[j]]

\* Connection c leaves OPEN: the jobs whose submitter it was and whose result
\* has not been pushed yet are marked.
Orphan(c) ==
    [j \in 1..Len(orphaned) |->
        IF intact[j] = c /\ \A n \in 1..Len(pushLog) : pushLog[n] # j
        THEN c ELSE orphaned[j]]

\* The backend process exits on an uncaught exception: its sockets are
\* closed by the system, no close handler runs, the registry is gone.
ProcessExit(cause) ==
    /\ backend' = cause
    /\ connState' = [c \in Conns |->
                       IF connState[c] \in {"OPEN", "CLOSING"}
                       THEN "CLOSED" ELSE connState[c]]
    /\ wsClients' = [k \in DOMAIN wsClients |-> NoConn]
    /\ intact' = Forget({j \in 1..Len(intact) : intact[j] # NoConn})
    /\ orphaned' = [j \in 1..Len(orphaned) |->
                      IF /\ intact[j] # NoConn
                         /\ connState[intact[j]] = "OPEN"
                         /\ \A n \in 1..Len(pushLog) : pushLog[n] # j
                      THEN intact[j] ELSE orphaned[j]]

\* The promise of listenForResults is rejected and nobody handles it: the
\* loop is over; whether the process exits as well depends on the runtime's
\* unhandled-rejection mode (exits).
RouterThrows(pc, exits) ==
    /\ router' = [pc |-> pc, held |-> <<>>, jid |-> 0]
    /\ IF exits
       THEN ProcessExit("crashed:results")
       ELSE UNCHANGED <<backend, connState, wsClients, intact, orphaned>>

\* start(): connectRedis() resolved, listenForResults() issued its first
\* blPop and server.listen() was called.
BackendStart ==
    /\ backend = "connecting"
    /\ broker = "up"
    /\ backend' = "running"
    /\ router' = [router EXCEPT !.pc = "blocked"]
    /\ UNCHANGED <<chatVars, broker, problems, results, wsClients, connState, inbox,
                   worker, reply, hist>>

\* wss.on('connection').  Connections are fresh objects, so they are taken
\* from the pool in index order.
WsConnect(c) ==
    /\ backend = "running"
    /\ connState[c] = "NEW"
    /\ \A d \in Conns : d < c => connState[d] # "NEW"
    /\ connState' = [connState EXCEPT ![c] = "OPEN"]
    /\ UNCHANGED <<chatVars, broker, backend, problems, results, wsClients, inbox,
                   worker, router, reply, hist>>

\* ws.on('message') with a parsed message {type, userId}.
WsMessage(c, type, userId) ==
    /\ backend = "running"
    /\ connState[c] = "OPEN"
    /\ IF type = "register"
       THEN /\ wsClients' = RegistrySet(wsClients, userId, c)
            /\ regIds' = [regIds EXCEPT ![c] = @ \cup {userId}]
            /\ lastReg' = [x \in (DOMAIN lastReg) \cup {userId} |->
                            IF x = userId THEN c ELSE lastReg[x]]
            /\ intact' = Forget({j \in 1..Len(intact) : accepted[j].userId = userId /\ intact[j] # c})
       ELSE UNCHANGED <<wsClients, regIds, lastReg, intact>>
    /\ UNCHANGED <<chatVars, broker, backend, problems, results, connState, inbox, worker,
                   router, reply, accepted, popLog, pushLog, routeLog,
                   staleAtClose, orphaned>>

\* The connection leaves readyState OPEN (closing handshake under way); its
\* 'close' event has not been emitted yet.
WsBeginClose(c) ==
    /\ connState[c] = "OPEN"
    /\ connState' = [connState EXCEPT ![c] = "CLOSING"]
    /\ intact' = Forget({j \in 1..Len(intact) : intact[j] = c})
    /\ orphaned' = Orphan(c)
    /\ UNCHANGED <<chatVars, broker, backend, problems, results, wsClients, inbox,
                   worker, router, reply, accepted, popLog, pushLog,
                   routeLog, regIds, lastReg, staleAtClose>>

\* ws.on('close')
WsClose(c) ==
    /\ connState[c] \in {"OPEN", "CLOSING"}
    /\ connState' = [connState EXCEPT ![c] = "CLOSED"]
    /\ wsClients' = RegistryUnregister(wsClients, c)
    /\ staleAtClose' = [staleAtClose EXCEPT ![c] =
                          {u \in regIds[c] : Lookup(wsClients, u) \notin {c, NoConn}}]
    /\ intact' = Forget({j \in 1..Len(intact) : intact[j] = c})
    /\ orphaned' = Orphan(c)
    /\ UNCHANGED <<chatVars, broker, backend, problems, results, inbox, worker, router,
                   reply, accepted, popLog, pushLog, routeLog, regIds, lastReg>>

\* app.post('/submit'); pushOk is the outcome of redisClient.rPush.
Submit(payload, pushOk) ==
    /\ backend = "running"
    /\ pushOk => broker = "up"
    /\ LET valid == Validate(payload)
           jid == Len(accepted) + 1
           ws == Lookup(wsClients, payload.userId)
       IN  /\ (valid /\ pushOk) => Len(accepted) < MaxJobs
           /\ reply' = [n |-> 1 - reply.n, req |-> payload,
                        pushOk |-> valid /\ pushOk,
                        status |-> SubmitStatus(valid, pushOk)]
           /\ IF valid /\ pushOk
              THEN /\ problems' = RPush(problems,
                                        [json |-> Stringify(payload, JobKeys),
                                         jid |-> jid])
                   /\ accepted' = Append(accepted, payload)
                   /\ intact' = Append(intact,
                                       IF ws # NoConn /\ connState[ws] = "OPEN"
                                       THEN ws ELSE NoConn)
                   /\ orphaned' = Append(orphaned, NoConn)
              ELSE UNCHANGED <<problems, accepted, intact, orphaned>>
    /\ UNCHANGED <<chatVars, broker, backend, results, wsClients, connState, inbox,
                   worker, router, popLog, pushLog, routeLog, regIds,
                   lastReg, staleAtClose>>

\* connectRedis() of the worker resolved; main() enters its loop and blocks
\* in blPop.  Worker processes are interchangeable, so they come up in
\* index order.
WorkerConnect(w) ==
    /\ worker[w].pc = "connecting"
    /\ broker = "up"
    /\ \A v \in Workers : v < w => worker[v].pc \notin {"connecting", "waiting"}
    /\ worker' = [worker EXCEPT ![w].pc = "ready"]
    /\ UNCHANGED <<chatVars, broker, backend, problems, results, wsClients, connState, inbox,
                   router, reply, hist>>

\* blPop('problems') returns an element; the payload is parsed and the
\* simulated execution (the 1500 ms timer) starts.
WorkerPop(w) ==
    /\ worker[w].pc = "ready"
    /\ broker = "up"
    /\ problems # <<>>
    /\ LET res == BlPop(problems)
       IN  /\ problems' = res.rest
           /\ IF Parsable(res.element.json)
              THEN /\ worker' = [worker EXCEPT ![w] =
                                   [pc |-> "executing",
                                    job |-> Parse(res.element.json, JobKeys),
                                    jid |-> res.element.jid]]
                   /\ popLog' = Append(popLog, [w |-> w, jid |-> res.element.jid])
              ELSE \* JSON.parse throws out of the loop: main() is over
                   /\ worker' = [worker EXCEPT ![w].pc = "dead:parse"]
                   /\ UNCHANGED popLog
    /\ UNCHANGED <<chatVars, broker, backend, results, wsClients, connState, inbox,
                   router, reply, accepted, pushLog, routeLog, regIds,
                   lastReg, staleAtClose, intact, orphaned>>

\* The timer fired: rPush('results', ...) and back to blPop.
WorkerPush(w) ==
    /\ worker[w].pc = "executing"
    /\ broker = "up"
    /\ results' = RPush(results,
                        [json |-> Stringify(MakeResult(worker[w].job), ResultKeys),
                         jid |-> worker[w].jid])
    /\ pushLog' = Append(pushLog, worker[w].jid)
    /\ worker' = [worker EXCEPT ![w] = [pc |-> "ready", job |-> NoPayload, jid |-> 0]]
    /\ UNCHANGED <<chatVars, broker, backend, problems, wsClients, connState, inbox,
                   router, reply, accepted, popLog, routeLog, regIds,
                   lastReg, staleAtClose, intact, orphaned>>

\* listenForResults: blPop('results') takes the head of the list.
RouterPop ==
    /\ router.pc = "blocked"
    /\ broker = "up"
    /\ results # <<>>
    /\ LET res == BlPop(results)
       IN  /\ results' = res.rest
           /\ router' = [pc |-> "handling", held |-> res.element.json,
                         jid |-> res.element.jid]
    /\ UNCHANGED <<chatVars, broker, backend, problems, wsClients, connState, inbox,
                   worker, reply, hist>>

\* listenForResults: the continuation after the await (parse, lookup, send,
\* call listenForResults again).
RouterRoute ==
    /\ router.pc = "handling"
    /\ IF Parsable(router.held)
       THEN LET result == Parse(router.held, ResultKeys)
                ws == RouteTarget(wsClients, connState, result)
            IN  /\ inbox' = IF ws # NoConn
                            THEN [inbox EXCEPT ![ws] =
                                    Append(@, [json |-> Stringify(result, ResultKeys),
                                               jid |-> router.jid])]
                            ELSE inbox
                /\ routeLog' = Append(routeLog,
                      [jid |-> router.jid, to |-> ws,
                       entry |-> Lookup(wsClients, result.userId),
                       bypassed |-> {c \in Conns \ {ws} :
                                        /\ connState[c] = "OPEN"
                                        /\ result.userId \in regIds[c]}])
                /\ router' = [pc |-> RouterAfter(ws), held |-> <<>>, jid |-> 0]
                /\ UNCHANGED <<backend, connState, wsClients, intact, orphaned>>
       ELSE \* JSON.parse throws before line 170 is reached
            /\ \E exits \in BOOLEAN : RouterThrows("stopped:parse", exits)
            /\ UNCHANGED <<inbox, routeLog>>
    /\ UNCHANGED <<chatVars, broker, problems, results, worker, reply, accepted,
                   popLog, pushLog, regIds, lastReg, staleAtClose>>

\* ------------------------------------------------------------------ faults
\* The Redis server becomes unreachable / reachable again.
BrokerDown ==
    /\ broker = "up"
    /\ broker' = "down"
    /\ UNCHANGED <<chatVars, backend, problems, results, wsClients,
                   connState, inbox, worker, router, reply, hist>>

BrokerUp ==
    /\ broker = "down"
    /\ broker' = "up"
    /\ UNCHANGED <<chatVars, backend, problems, results, wsClients,
                   connState, inbox, worker, router, reply, hist>>

\* Backend start(): redisClient.connect() rejects; connectRedis has no
\* try/catch and no loop, start() is not awaited: the backend never listens.
BackendStartFails ==
    /\ backend = "connecting"
    /\ broker = "down"
    /\ backend' = "crashed:connect"
    /\ UNCHANGED <<chatVars, broker, problems, results, wsClients, connState, inbox,
                   worker, router, reply, hist>>

\* Worker connectRedis(): client.connect() rejects, the catch logs and
\* waits 2000 ms ...
WorkerConnectFails(w) ==
    /\ worker[w].pc = "connecting"
    /\ broker = "down"
    /\ worker' = [worker EXCEPT ![w].pc = "waiting"]
    /\ UNCHANGED <<chatVars, broker, backend, problems, results, wsClients, connState,
                   inbox, router, reply, hist>>

\* ... and the while loop tries again.
WorkerRetry(w) ==
    /\ worker[w].pc = "waiting"
    /\ worker' = [worker EXCEPT ![w].pc = "connecting"]
    /\ UNCHANGED <<chatVars, broker, backend, problems, results, wsClients, connState,
                   inbox, router, reply, hist>>

\* Worker main(): the pending blPop rejects; nothing in the loop catches it.
WorkerBlPopFails(w) ==
    /\ worker[w].pc = "ready"
    /\ broker = "down"
    /\ worker' = [worker EXCEPT ![w].pc = "dead:blPop"]
    /\ UNCHANGED <<chatVars, broker, backend, problems, results, wsClients, connState,
                   inbox, router, reply, hist>>

\* Worker main(): rPush('results') rejects; nothing in the loop catches it
\* and the job it held is lost.
WorkerPushFails(w) ==
    /\ worker[w].pc = "executing"
    /\ broker = "down"
    /\ worker' = [worker EXCEPT ![w].pc = "dead:push"]
    /\ UNCHANGED <<chatVars, broker, backend, problems, results, wsClients, connState,
                   inbox, router, reply, hist>>

\* listenForResults: the pending blPop rejects.
RouterBlPopFails ==
    /\ router.pc = "blocked"
    /\ broker = "down"
    /\ \E exits \in BOOLEAN : RouterThrows("stopped:blPop", exits)
    /\ UNCHANGED <<chatVars, broker, problems, results, inbox, worker, reply,
                   accepted, popLog, pushLog, routeLog, regIds, lastReg,
                   staleAtClose>>

\* ws.on('message') with data that is not JSON: JSON.parse throws inside the
\* event listener, which is an uncaught exception.
WsMalformed(c) ==
    /\ backend = "running"
    /\ connState[c] = "OPEN"
    /\ ProcessExit("crashed:message")
    /\ router' = [pc |-> "stopped:exit", held |-> <<>>, jid |-> 0]
    /\ UNCHANGED <<chatVars, broker, problems, results, inbox, worker, reply,
                   accepted, popLog, pushLog, routeLog, regIds, lastReg,
                   staleAtClose>>

\* Another client of the same Redis server appends a text that is not JSON
\* to one of the lists (at most one such text per list at a time).
ForeignPush(list) ==
    /\ broker = "up"
    /\ IF list = "problems"
       THEN /\ \A i \in 1..Len(problems) : Parsable(problems[i].json)
            /\ problems' = RPush(problems, [json |-> Garbage, jid |-> 0])
            /\ UNCHANGED results
       ELSE /\ \A i \in 1..Len(results) : Parsable(results[i].json)
            /\ results' = RPush(results, [json |-> Garbage, jid |-> 0])
            /\ UNCHANGED problems
    /\ UNCHANGED <<chatVars, broker, backend, wsClients, connState, inbox, worker,
                   router, reply, hist>>

Next ==
    \/ BackendStart
    \/ \E c \in Conns : WsConnect(c)
    \/ \E c \in Conns, type \in {"register", "ping"}, u \in RegIds :
          WsMessage(c, type, u)
    \/ \E c \in Conns : WsBeginClose(c)
    \/ \E c \in Conns : WsClose(c)
    \/ \E p \in ValidPayloads : Submit(p, TRUE)
    \/ \E w \in Workers : WorkerConnect(w)
    \/ \E w \in Workers : WorkerPop(w)
    \/ \E w \in Workers : WorkerPush(w)
    \/ RouterPop
    \/ RouterRoute

Spec == Init /\ [][Next]_vars

\* The submission boundary on its own: every payload, both outcomes of the
\* queue write, and a worker draining the queue between requests.  (Next
\* takes only the requests that reach the queue: the others change nothing
\* but the reply.)
NextSubmit ==
    \/ BackendStart
    \/ \E p \in Payloads, ok \in BOOLEAN : Submit(p, ok)
    \/ \E w \in Workers : WorkerConnect(w)
    \/ \E w \in Workers : WorkerPop(w)
    \/ \E w \in Workers : WorkerPush(w)

SpecSubmit == Init /\ [][NextSubmit]_vars

\* The registry under register messages of any client, with or without a
\* userId.
NextRegister ==
    \/ BackendStart
    \/ \E c \in Conns : WsConnect(c)
    \/ \E c \in Conns, type \in {"register", "ping"}, u \in MsgIds :
          WsMessage(c, type, u)
    \/ \E c \in Conns : WsBeginClose(c)
    \/ \E c \in Conns : WsClose(c)

SpecRegister == Init /\ [][NextRegister]_vars

Faults ==
    \/ BrokerDown
    \/ BrokerUp
    \/ BackendStartFails
    \/ \E w \in Workers : WorkerConnectFails(w)
    \/ \E w \in Workers : WorkerRetry(w)
    \/ \E w \in Workers : WorkerBlPopFails(w)
    \/ \E w \in Workers : WorkerPushFails(w)
    \/ RouterBlPopFails
    \/ \E c \in Conns : WsMalformed(c)
    \/ \E list \in {"problems", "results"} : ForeignPush(list)

\* The system under faults, with one browser connection and one job at a
\* time in flight besides the foreign texts.
NextFault ==
    \/ BackendStart
    \/ WsConnect(1)
    \/ \E u \in UserIds : WsMessage(1, "register", u)
    \/ WsClose(1)
    \/ \E p \in ValidPayloads : accepted = <<>> /\ Submit(p, TRUE)
    \/ \E w \in Workers : WorkerConnect(w)
    \/ \E w \in Workers : WorkerPop(w)
    \/ \E w \in Workers : WorkerPush(w)
    \/ RouterPop
    \/ RouterRoute
    \/ Faults

SpecFault == Init /\ [][NextFault]_vars

\* ------------------------------------------------------------ chat server
\* The chat server (index.ts of the Websocket project) is a process of its
\* own: it shares nothing with the pipeline.
ChatKeys == <<"type", "name", "message">>

\* What payload.name can be in a join message.
JoinNames == {"alice", "bob", "", Undefined}

ClientJson(type, name, message) ==
    Stringify([type |-> type, name |-> name, message |-> message], ChatKeys)

\* The text "null": it parses, and reading a property of the value throws.
JsonNull == <<<<"<null>", "">>>>

\* The data a client can send.
ChatData ==
    {Garbage, JsonNull, ClientJson("ping", Undefined, Undefined),
     ClientJson("message", Undefined, "hi")}
        \cup {ClientJson("join", n, Undefined) : n \in JoinNames}

\* Whether the try block of the message handler throws on this data.
Throws(data) == ~Parsable(data) \/ data = JsonNull

\* clients.get(ws)?.name
ClientsName(m, ws) ==
    IF \E i \in 1..Len(m) : m[i].ws = ws
    THEN m[CHOOSE i \in 1..Len(m) : m[i].ws = ws].name
    ELSE Undefined

ClientsHas(m, ws) == \E i \in 1..Len(m) : m[i].ws = ws

\* clients.set(ws, {name}): a Map keeps the position of an existing key.
ClientsSet(m, ws, name) ==
    IF ClientsHas(m, ws)
    THEN [i \in 1..Len(m) |-> IF m[i].ws = ws THEN [ws |-> ws, name |-> name]
                                             ELSE m[i]]
    ELSE Append(m, [ws |-> ws, name |-> name])

\* clients.delete(ws)
ClientsDelete(m, ws) == SelectSeq(m, LAMBDA e : e.ws # ws)

\* A payload passed to send; fields a kind of message does not have are
\* undefined, an undefined array item is written as null.
ChatMsg(type, name, message, users) ==
    [type |-> type, name |-> name, message |-> message, users |-> users]

Welcome == ChatMsg("system", Undefined, "Connected", <<>>)

UsersMsg(m) ==
    ChatMsg("users", Undefined, Undefined,
            [i \in 1..Len(m) |->
                IF m[i].name = Undefined THEN "<null>" ELSE m[i].name])

\* Variant: the name of the entry is used as it is.
SenderNoDefault(m, ws) == ClientsName(m, ws)

\* clients.get(ws)?.name || 'Unknown'
Sender(m, ws) ==
    IF Truthy(ClientsName(m, ws)) THEN ClientsName(m, ws) ELSE "Unknown"

\* broadcast(data): to every socket of wss.clients that is OPEN.
Broadcast(inb, st, msg) ==
    [d \in DOMAIN inb |-> IF st[d] = "OPEN" THEN Append(inb[d], msg) ELSE inb[d]]

\* wss.on('connection'): the handlers are installed and the welcome
\* message is sent.  Sockets are taken in index order.
ChatConnect(c) ==
    /\ sockets[c] = "NEW"
    /\ \A d \in Sockets : d < c => sockets[d] # "NEW"
    /\ sockets' = [sockets EXCEPT ![c] = "OPEN"]
    /\ chatInbox' = [chatInbox EXCEPT ![c] = Append(@, Welcome)]
    /\ UNCHANGED <<clients, handled, garbled, pipelineVars>>

\* ws.on('message')
ChatMessage(c, data) ==
    /\ sockets[c] = "OPEN"
    /\ handled.n < MaxEvents
    /\ handled' = [n |-> handled.n + 1, ws |-> c, data |-> data]
    /\ IF Throws(data)
       THEN \* the catch block logs and returns
            /\ garbled' = garbled \cup {c}
            /\ UNCHANGED <<clients, chatInbox>>
       ELSE LET payload == Parse(data, ChatKeys)
                joined == ClientsSet(clients, c, payload.name)
            IN  /\ UNCHANGED garbled
                /\ IF payload.type = "join"
                   THEN /\ clients' = joined
                        /\ chatInbox' = Broadcast(chatInbox, sockets, UsersMsg(joined))
                   ELSE IF payload.type = "message"
                   THEN /\ chatInbox' =
                             Broadcast(chatInbox, sockets,
                                       ChatMsg("message", Sender(clients, c),
                                               payload.message, <<>>))
                        /\ UNCHANGED clients
                   ELSE UNCHANGED <<clients, chatInbox>>
    /\ UNCHANGED <<sockets, pipelineVars>>

\* The socket leaves readyState OPEN; its 'close' event is still to come.
ChatBeginClose(c) ==
    /\ sockets[c] = "OPEN"
    /\ sockets' = [sockets EXCEPT ![c] = "CLOSING"]
    /\ UNCHANGED <<clients, chatInbox, handled, garbled, pipelineVars>>

\* ws.on('close')
ChatClose(c) ==
    /\ sockets[c] \in {"OPEN", "CLOSING"}
    /\ sockets' = [sockets EXCEPT ![c] = "CLOSED"]
    /\ LET user == ClientsName(clients, c)
           left == ClientsDelete(clients, c)
       IN  /\ clients' = left
           /\ chatInbox' = IF Truthy(user)
                           THEN Broadcast(chatInbox, sockets', UsersMsg(left))
                           ELSE chatInbox
    /\ UNCHANGED <<handled, garbled, pipelineVars>>

NextChat ==
    \/ \E c \in Sockets : ChatConnect(c)
    \/ \E c \in Sockets, data \in ChatData : ChatMessage(c, data)
    \/ \E c \in Sockets : ChatBeginClose(c)
    \/ \E c \in Sockets : ChatClose(c)

SpecChat == Init /\ [][NextChat]_vars

\* ------------------------------------------------------------ properties
\* Helpers for the properties below.
RouteStep == router.pc = "handling" /\ router'.pc # "handling"

SubmitStep == reply'.n # reply.n

CloseStep(c) == connState[c] # "CLOSED" /\ connState'[c] = "CLOSED"

HeldResult == Parse(router.held, ResultKeys)

Entry(u) == Lookup(wsClients, u)

RegisteredOpen(u) == Entry(u) # NoConn /\ connState[Entry(u)] = "OPEN"

Msg(c, i) == Parse(inbox[c][i].json, ResultKeys)

Pos(log, j) == CHOOSE i \in 1..Len(log) : log[i] = j

\* The (connection, index) places where the result of job j was sent.
Hits(j) == {p \in Conns \X (1..MaxJobs + 1) :
              p[2] <= Len(inbox[p[1]]) /\ inbox[p[1]][p[2]].jid = j}

Routed == (1..Len(accepted)) \ Unrouted

\* C1: a result the router handles while a connection is registered under
\* its userId and OPEN is sent to that connection; no result is ever sent to
\* a connection other than the one registered under its userId; the results
\* a connection got for one userId are in the order the worker pushed them
\* to 'results'.
C1_RoutedToRegisteredInOrder ==
    /\ [](\A c \in Conns : \A i, k \in 1..Len(inbox[c]) :
             (i < k /\ Msg(c, i).userId = Msg(c, k).userId)
                => Pos(pushLog, inbox[c][i].jid) < Pos(pushLog, inbox[c][k].jid))
    /\ [][RouteStep =>
             LET ws == Entry(HeldResult.userId)
             IN  /\ \A c \in Conns \ {ws} : inbox'[c] = inbox[c]
                 /\ RegisteredOpen(HeldResult.userId) =>
                       /\ Len(inbox'[ws]) = Len(inbox[ws]) + 1
                       /\ SubSeq(inbox'[ws], 1, Len(inbox[ws])) = inbox[ws]
                       /\ Parse(inbox'[ws][Len(inbox'[ws])].json, ResultKeys)
                             = HeldResult]_vars

\* C1 witness: one connection got two results for the same userId.
C1_Witness ==
    \E c \in Conns : \E i, k \in 1..Len(inbox[c]) :
        i < k /\ Msg(c, i).userId = Msg(c, k).userId

\* C2: whenever a result is sent, it is sent to the connection that
\* registered the result's userId last, never to one that registered it
\* earlier, even if that one is still open.
C2_OnlyLatestRegistrant ==
    [][\A c \in Conns : inbox'[c] # inbox[c] =>
          lastReg[Parse(inbox'[c][Len(inbox'[c])].json, ResultKeys).userId] = c]_vars

\* C2 witness: a result was sent to the latest registrant while a connection
\* that had registered the same userId before was still open.
C2_Witness ==
    \E i \in 1..Len(routeLog) : routeLog[i].to # NoConn /\ routeLog[i].bypassed # {}

\* C3: the close handler removes exactly the entries whose value is the
\* closing connection; every other entry, a newer connection's under the
\* same userId included, is left as it was.
C3_CloseKeepsNewerEntry ==
    [][\A c \in Conns : CloseStep(c) =>
          \A u \in DOMAIN wsClients :
              wsClients'[u] = IF wsClients[u] = c THEN NoConn ELSE wsClients[u]]_vars

\* C3 witness: a connection closed after another had registered under one of
\* its userIds, and the lookup of that userId still gives the other one.
C3_Witness ==
    \E c \in Conns : \E u \in staleAtClose[c] :
        /\ connState[c] = "CLOSED"
        /\ Entry(u) \notin {c, NoConn}

\* C4: 'problems' is popped in rPush order, and a worker that pops a job has
\* finished executing every job it popped before.
C4_JobsPoppedInOrder ==
    /\ \A i \in 1..Len(popLog) : popLog[i].jid = i
    /\ \A i, k \in 1..Len(popLog) :
          (i < k /\ popLog[i].w = popLog[k].w)
             => \E n \in 1..Len(pushLog) : pushLog[n] = popLog[i].jid

\* C4 witness: one worker alone has popped two jobs.
C4_Witness ==
    /\ Len(popLog) >= 2
    /\ \A i \in 1..Len(popLog) : popLog[i].w = 1
    /\ \A w \in Workers \ {1} : worker[w].pc = "connecting"

\* C5: no result is sent twice, and once the result of a job whose
\* submitter's connection stayed registered and OPEN since the submission
\* has been routed, that connection holds exactly one message for the job,
\* with the job's userId, username and problem id and a non-empty status.
C5_ExactlyOneResult ==
    \A j \in 1..Len(accepted) :
        /\ Cardinality(Hits(j)) <= 1
        /\ (j \in Routed /\ intact[j] # NoConn) =>
              \E p \in Hits(j) :
                  /\ p[1] = intact[j]
                  /\ Msg(p[1], p[2]).userId = accepted[j].userId
                  /\ Msg(p[1], p[2]).username = accepted[j].username
                  /\ Msg(p[1], p[2]).problemTd = accepted[j].problemTd
                  /\ Truthy(Msg(p[1], p[2]).status)

\* C5 witness: such a job has been routed.
C5_Witness == \E j \in Routed : intact[j] # NoConn

\* C6: every message a connection was sent carries a userId that this very
\* connection registered.
C6_OnlyOwnResults ==
    \A c \in Conns : \A i \in 1..Len(inbox[c]) : Msg(c, i).userId \in regIds[c]

\* C6 witness: two submitters on two connections, their jobs executed by two
\* workers and finished in the opposite order, each got its own result.
C6_Witness ==
    /\ Len(pushLog) = 2 /\ pushLog[1] = 2
    /\ \E c, d \in Conns :
          /\ regIds[c] = {"u1"} /\ regIds[d] = {"u2"}
          /\ Len(inbox[c]) = 1 /\ Len(inbox[d]) = 1

\* C7: routing a result whose userId has no registry entry sends nothing and
\* puts the router back on its blocking dequeue.
C7_MissIsDropped ==
    [][(RouteStep /\ Entry(HeldResult.userId) = NoConn) =>
          inbox' = inbox /\ router'.pc = "blocked"]_vars

\* C7 witness: a result was dropped for want of an entry and a later one was
\* delivered.
C7_Witness ==
    \E i, k \in 1..Len(routeLog) :
        i < k /\ routeLog[i].entry = NoConn /\ routeLog[k].to # NoConn

\* C8: a valid submission whose queue write fails is answered 500 and
\* leaves 'problems' as it was.
C8_WriteFailureIs500 ==
    [][(SubmitStep /\ Validate(reply'.req) /\ ~reply'.pushOk) =>
          reply'.status = 500 /\ problems' = problems]_vars

\* C8 witness: a 500 was answered while jobs were waiting in the queue.
C8_Witness == reply.status = 500 /\ Validate(reply.req) /\ problems # <<>>

\* C9: a submission with a missing or empty userId, username or problem id
\* is answered 400 and leaves 'problems' as it was; every job in 'problems'
\* has all three non-empty.
C9_InvalidIs400 ==
    /\ [](\A i \in 1..Len(problems) :
             LET job == Parse(problems[i].json, JobKeys)
             IN  Truthy(job.userId) /\ Truthy(job.username) /\ Truthy(job.problemTd))
    /\ [][(SubmitStep /\ \E f \in {"userId", "username", "problemTd"} :
                            reply'.req[f] \in {Undefined, ""}) =>
             reply'.status = 400 /\ problems' = problems]_vars

\* C9 witness: a 400 was answered while jobs were waiting in the queue.
C9_Witness == reply.status = 400 /\ problems # <<>>

\* C10: no job is popped twice, by the same or by different workers, and no
\* job has more than one result record.
C10_PoppedOnce ==
    /\ \A i, k \in 1..Len(popLog) : popLog[i].jid = popLog[k].jid => i = k
    /\ \A i, k \in 1..Len(pushLog) : pushLog[i] = pushLog[k] => i = k
    /\ \A v, w \in Workers :
          (v # w /\ worker[v].pc = "executing" /\ worker[w].pc = "executing")
             => worker[v].jid # worker[w].jid

\* C10 witness: two workers hold a job each at the same time.
C10_Witness ==
    \E v, w \in Workers :
        v # w /\ worker[v].pc = "executing" /\ worker[w].pc = "executing"

\* The jobs worker w popped and has not pushed a result for.
Held(w) == {i \in 1..Len(popLog) :
              /\ popLog[i].w = w
              /\ \A n \in 1..Len(pushLog) : pushLog[n] # popLog[i].jid}

PopPos(j) == CHOOSE i \in 1..Len(popLog) : popLog[i].jid = j

\* C11: a worker holds one job while it executes and none otherwise; no job
\* has two result records; the records of one worker lie in 'results' in the
\* order in which that worker popped their jobs.
C11_OneJobAtATime ==
    /\ \A w \in Workers :
          Cardinality(Held(w)) = IF worker[w].pc = "executing" THEN 1 ELSE 0
    /\ \A n, m \in 1..Len(pushLog) : pushLog[n] = pushLog[m] => n = m
    /\ \A a, b \in 1..Len(results) :
          (a < b /\ popLog[PopPos(results[a].jid)].w = popLog[PopPos(results[b].jid)].w)
             => PopPos(results[a].jid) < PopPos(results[b].jid)

\* C11 witness: two records of the same worker are waiting in 'results'.
C11_Witness ==
    /\ Len(results) = 2
    /\ popLog[PopPos(results[1].jid)].w = popLog[PopPos(results[2].jid)].w

\* C17: a record is routed once and is then in neither the list nor the
\* router's hands; a result routed while its userId had no entry or the
\* registered connection was not OPEN is sent to nobody, at that step or at
\* any later one, and is not put back.
C17_DroppedForGood ==
    /\ [](/\ \A i, k \in 1..Len(routeLog) : routeLog[i].jid = routeLog[k].jid => i = k
          /\ \A i \in 1..Len(routeLog) :
                /\ router.jid # routeLog[i].jid
                /\ \A a \in 1..Len(results) : results[a].jid # routeLog[i].jid
                /\ routeLog[i].to = NoConn => Hits(routeLog[i].jid) = {})
    /\ [][(RouteStep /\ ~RegisteredOpen(HeldResult.userId)) =>
             inbox' = inbox /\ results' = results]_vars

\* C17 witness: a result was dropped and a connection registered under its
\* userId is open now.
C17_Witness ==
    \E i \in 1..Len(routeLog) :
        /\ routeLog[i].to = NoConn
        /\ RegisteredOpen(accepted[routeLog[i].jid].userId)

\* C18: registering is an idempotent upsert: doing it twice gives the same
\* registry as doing it once, registering d over c leaves exactly the entry
\* of d, and no other key is touched.
C18_RegisterIsUpsert ==
    \A u \in RegIds : \A c, d \in Conns :
        LET once == RegistrySet(wsClients, u, c)
            over == RegistrySet(once, u, d)
        IN  /\ RegistrySet(once, u, c) = once
            /\ Lookup(once, u) = c
            /\ Lookup(over, u) = d
            /\ over = RegistrySet(wsClients, u, d)
            /\ \A k \in DOMAIN wsClients : k # u => once[k] = wsClients[k]
            /\ DOMAIN once = DOMAIN wsClients \cup {u}

\* C18 witness: a userId registered by two open connections belongs to one.
C18_Witness ==
    \E u \in RegIds : \E c, d \in Conns :
        /\ c # d /\ u \in regIds[c] /\ u \in regIds[d]
        /\ connState[c] = "OPEN" /\ connState[d] = "OPEN"
        /\ Entry(u) = d

\* C15: a connection that has registered nothing has been sent nothing.
C15_UnregisteredGetsNothing ==
    \A c \in Conns : regIds[c] = {} => inbox[c] = <<>>

\* C15 witness: a connection that has registered nothing is open, and a
\* connection accepted after it has been sent a result (connections are
\* accepted in index order, so the first was open when that was routed).
C15_Witness ==
    \E c, d \in Conns :
        c < d /\ connState[c] = "OPEN" /\ regIds[c] = {} /\ inbox[d] # <<>>

\* C16 as stated: the result of a job whose submitter's connection closed
\* before the result was produced is sent to no connection at all.
C16_OrphanNeverDelivered ==
    \A j \in 1..Len(orphaned) : orphaned[j] # NoConn => Hits(j) = {}

\* C16 as amended: such a result is never sent to the closed connection; it
\* is sent only at its one routing step and only to the connection that is
\* then registered under the userId and OPEN; if there is none it is sent
\* to nobody, then or later.
C16_OrphanOnlyToRegistrant ==
    \A j \in 1..Len(orphaned) : orphaned[j] # NoConn =>
        /\ \A p \in Hits(j) : p[1] # orphaned[j]
        /\ j \in Unrouted => Hits(j) = {}
        /\ \A i \in 1..Len(routeLog) : routeLog[i].jid = j =>
              /\ routeLog[i].to = NoConn => Hits(j) = {}
              /\ \A p \in Hits(j) :
                    /\ p[1] = routeLog[i].to
                    /\ p[1] = routeLog[i].entry
                    /\ accepted[j].userId \in regIds[p[1]]

\* C16 witness: such a result reached a connection registered later.
C16_Witness ==
    \E j \in 1..Len(orphaned) : orphaned[j] # NoConn /\ Hits(j) # {}

\* C12: a message that cannot be parsed is discarded and nothing else
\* happens: the backend keeps running, so it is never brought down by its
\* message handler.
C12_UnparsableIsDiscarded == backend # "crashed:message"

\* C13: a job whose processing fails (the element does not parse, the result
\* push fails) does not stop the worker: no worker is ever dead at the
\* parse or at the push.
C13_FailedJobKeepsWorker ==
    \A w \in Workers : worker[w].pc \notin {"dead:parse", "dead:push"}

\* C14: a broker drop while the worker is blocked in the pop on 'problems'
\* makes it reconnect; it never reaches a terminated state.
C14_DropNeverTerminates ==
    [][\A w \in Workers :
          worker[w].pc = "ready" /\ broker = "down"
              => worker'[w].pc \in {"ready", "waiting", "connecting"}]_vars

\* C19: with the broker unavailable at start, neither process terminates: a
\* connecting backend stays connecting until it runs, a connecting or
\* waiting worker stays so until it is ready.
C19_StartKeepsRetrying ==
    [][/\ backend = "connecting" => backend' \in {"connecting", "running"}
       /\ \A w \in Workers :
            worker[w].pc \in {"connecting", "waiting"}
                => worker'[w].pc \in {"connecting", "waiting", "ready"}]_vars

\* C20: the result router never stops: after handling a dequeued result,
\* whatever it was, it issues the next blocking dequeue (the exit of the
\* process on an unparsable browser message, C12, set aside).
C20_RouterNeverStops ==
    [][router.pc = "handling" /\ backend' # "crashed:message"
          => router'.pc \in {"handling", "blocked"}]_vars

\* C22: the registry is changed only by a register message, which sets
\* exactly the entry of the registered userId, and by a connection close,
\* which removes exactly the entries whose value is the closing connection;
\* a submission, a worker step and a router step leave it unchanged, and a
\* routing miss leaves both queues unchanged.
C22_RegistryFrame ==
    [][/\ wsClients' # wsClients =>
            \/ \E c \in Conns : \E u \in DOMAIN wsClients' :
                  /\ connState[c] = "OPEN" /\ connState' = connState
                  /\ u \in regIds'[c]
                  /\ wsClients'[u] = c
                  /\ \A x \in DOMAIN wsClients' \ {u} :
                        x \in DOMAIN wsClients /\ wsClients'[x] = wsClients[x]
            \/ \E c \in Conns :
                  /\ CloseStep(c)
                  /\ DOMAIN wsClients' = DOMAIN wsClients
                  /\ \A x \in DOMAIN wsClients :
                        wsClients'[x] = IF wsClients[x] = c THEN NoConn
                                        ELSE wsClients[x]
       /\ (SubmitStep \/ worker' # worker \/ router' # router)
            => wsClients' = wsClients
       /\ (RouteStep /\ inbox' = inbox)
            => problems' = problems /\ results' = results]_vars

\* A result was dropped, and a connection closed while a userId it had
\* registered belonged to another connection, whose entry is still there.
C22_Witness ==
    /\ \E i \in 1..Len(routeLog) : routeLog[i].to = NoConn
    /\ \E c \in Conns : \E u \in staleAtClose[c] :
          connState[c] = "CLOSED" /\ Entry(u) \notin {c, NoConn}

\* C23: once a connection's close handler has run, no registry entry has
\* that connection as its value, however many userIds it had registered, so
\* every connection in the registry is one whose close event is still to
\* be handled.
C23_ClosedNotInRegistry ==
    /\ [](\A u \in DOMAIN wsClients :
            Entry(u) # NoConn => connState[Entry(u)] \in {"OPEN", "CLOSING"})
    /\ [][\A c \in Conns : CloseStep(c) =>
            \A u \in DOMAIN wsClients' : wsClients'[u] # c]_vars

\* A connection closed while it held the entries of two userIds.
C23_Witness ==
    \E c \in Conns :
        /\ connState[c] = "CLOSED"
        /\ Cardinality(regIds[c]) = 2
        /\ \A d \in Conns \ {c} : regIds[d] = {}

\* The number of places of each kind where job j is.
InList(q, j) == Cardinality({i \in 1..Len(q) : q[i].jid = j})

WithWorker(j) ==
    Cardinality({w \in Workers : worker[w].pc = "executing" /\ worker[w].jid = j})

WithRouter(j) == IF router.pc = "handling" /\ router.jid = j THEN 1 ELSE 0

RoutedTimes(j) == Cardinality({i \in 1..Len(routeLog) : routeLog[i].jid = j})

SentTotal ==
    Cardinality({p \in Conns \X (1..MaxJobs + 1) : p[2] <= Len(inbox[p[1]])})

ResultsPopped == Len(routeLog) + (IF router.pc = "handling" THEN 1 ELSE 0)

\* C24 as stated: every accepted job is in exactly one of four places:
\* waiting in 'problems', held by a worker, one record in 'results', or
\* already routed.
C24_FourPlaces ==
    \A j \in 1..Len(accepted) :
        InList(problems, j) + WithWorker(j) + InList(results, j)
            + RoutedTimes(j) = 1

\* C24: every accepted job is in exactly one of five places: waiting in
\* 'problems', held by a worker, one record in 'results', popped from
\* 'results' by the router and not handled yet, or already routed; no more
\* results were pushed than jobs popped, and no more messages sent than
\* results popped.
C24_JobConservation ==
    /\ \A j \in 1..Len(accepted) :
          InList(problems, j) + WithWorker(j) + InList(results, j)
              + WithRouter(j) + RoutedTimes(j) = 1
    /\ Len(pushLog) <= Len(popLog)
    /\ SentTotal <= ResultsPopped

\* One job has been routed and the router holds the result of another.
C24_Witness ==
    /\ Len(accepted) = MaxJobs
    /\ router.pc = "handling"
    /\ \E j \in 1..Len(accepted) : RoutedTimes(j) = 1 /\ WithRouter(j) = 0
    /\ SentTotal >= 1

\* C25: every key of the registry is a non-empty submitter identity: a
\* register message that carries no userId creates no entry.
C25_KeysAreIdentities ==
    \A k \in DOMAIN wsClients : wsClients[k] # NoConn => Truthy(k)

ChatCloseStep(c) == sockets[c] # "CLOSED" /\ sockets'[c] = "CLOSED"

LastSent(d) == chatInbox'[d][Len(chatInbox'[d])]

\* The names of the entries of m other than that of socket c, as sent.
NamesWithout(m, c) ==
    LET rest == SelectSeq(m, LAMBDA e : e.ws # c)
    IN  [i \in 1..Len(rest) |->
            IF rest[i].name = Undefined THEN "<null>" ELSE rest[i].name]

\* C21: when a chat connection that has joined closes, its entry is removed
\* from clients and a 'users' list with exactly the names of the remaining
\* joined connections is sent to every open connection; when a connection
\* that has not joined closes, no 'users' list is sent.
C21_LeaveUpdatesUsers ==
    [][\A c \in Sockets : ChatCloseStep(c) =>
          /\ ~ClientsHas(clients', c)
          /\ IF ClientsHas(clients, c)
             THEN \A d \in Sockets : sockets'[d] = "OPEN" =>
                    /\ Len(chatInbox'[d]) = Len(chatInbox[d]) + 1
                    /\ LastSent(d).type = "users"
                    /\ LastSent(d).users = NamesWithout(clients, c)
             ELSE chatInbox' = chatInbox]_vars

ChatEvent == handled'.n # handled.n

\* Every open socket was sent one more payload.
SentToAllOpen ==
    \A d \in Sockets :
        IF sockets[d] = "OPEN"
        THEN Len(chatInbox'[d]) = Len(chatInbox[d]) + 1
        ELSE chatInbox'[d] = chatInbox[d]

\* C26: data the chat server cannot parse is caught and discarded: clients
\* is unchanged, nothing is sent, the connection stays open, and a later
\* join or message of the same connection is processed as usual; a message
\* of a connection that has not joined is broadcast under the name
\* 'Unknown'.
C26_BadDataDiscarded ==
    [][ChatEvent =>
          LET c == handled'.ws
              data == handled'.data
              payload == Parse(data, ChatKeys)
          IN  /\ sockets' = sockets
              /\ Throws(data) => clients' = clients /\ chatInbox' = chatInbox
              /\ (~Throws(data) /\ payload.type = "join") =>
                    /\ ClientsHas(clients', c)
                    /\ ClientsName(clients', c) = payload.name
                    /\ SentToAllOpen
                    /\ LastSent(c).type = "users"
              /\ (~Throws(data) /\ payload.type = "message") =>
                    /\ clients' = clients
                    /\ SentToAllOpen
                    /\ \A d \in Sockets : sockets[d] = "OPEN" =>
                          /\ LastSent(d).type = "message"
                          /\ LastSent(d).message = payload.message
                          /\ ~ClientsHas(clients, c)
                                => LastSent(d).name = "Unknown"
                          /\ Truthy(ClientsName(clients, c))
                                => LastSent(d).name = ClientsName(clients, c)]_vars

\* After three events, a socket that had sent unreadable data has just
\* joined as alice, and a message was broadcast under the name 'Unknown'.
C26_Witness ==
    \E c \in garbled :
        /\ handled.n = 3
        /\ handled.ws = c
        /\ handled.data = ClientJson("join", "alice", Undefined)
        /\ sockets[c] = "OPEN"
        /\ ClientsName(clients, c) = "alice"
        /\ \E d \in Sockets : \E i \in 1..Len(chatInbox[d]) :
              chatInbox[d][i].type = "message" /\ chatInbox[d][i].name = "Unknown"

TypeOK ==
    /\ backend \in {"connecting", "running", "crashed:connect",
                   "crashed:message", "crashed:results"}
    /\ broker \in {"up", "down"}
    /\ \A c \in Conns : connState[c] \in {"NEW", "OPEN", "CLOSING", "CLOSED"}
    /\ Len(accepted) <= MaxJobs
====
